---- MODULE Spec2Model ----
(***************************************************************************)
(* Model of the CV analyzer backend: the keyword ranker                    *)
(* (services.get_ranked_resume_matches behind routes.analyze_resumes) and  *)
(* the candidate lister (services.get_paginated_candidates).               *)
(*                                                                         *)
(* Strings are sequences of one-character strings.  Python values that     *)
(* may be None are tagged records: None, Str(s), Dict(d).                  *)
(***************************************************************************)
EXTENDS Integers, Sequences, FiniteSets, TLC

VARIABLES
    resumes,     \* rows of table "resumes", in the order the store returns them
    candidates,  \* rows of table "candidates"
    storeUp,     \* whether the store answers queries (else they raise)
    request,     \* the last request received
    response     \* what the last operation returned

vars == <<resumes, candidates, storeUp, request, response>>

----------------------------------------------------------------------------
(* Bounds of the model *)

MaxTextLen == 3      \* longest resume text (scoring specification)
MaxKeywords == 2     \* most keywords in one request
MaxResumes == 3      \* most rows in table "resumes"
MaxCandidates == 3   \* most rows in table "candidates"
MaxPage == 3         \* highest page requested
MaxPageSize == 2     \* largest page size requested

(* Program constants *)

FetchCap == 3000     \* .limit(3000) of the ranker's query
DefaultLimit == 5    \* AnalyzeRequest.limit default
LimitMax == 100      \* AnalyzeRequest.limit le=100

----------------------------------------------------------------------------
(* Python values *)

None == [t |-> "None"]
Str(s) == [t |-> "str", s |-> s]
Dict(d) == [t |-> "dict", d |-> d]
EmptyDict == Dict(<<>>)

\* Python truthiness of None, str and dict values
Truthy(v) ==
    CASE v.t = "None" -> FALSE
      [] v.t = "str"  -> v.s # <<>>
      [] v.t = "dict" -> DOMAIN v.d # {}

\* (v or w)
OrElse(v, w) == IF Truthy(v) THEN v ELSE w

Min(a, b) == IF a <= b THEN a ELSE b
Max(a, b) == IF a >= b THEN a ELSE b

\* seq[lo:hi] with 0 <= lo <= hi (Python slice, 0-based, hi exclusive)
Slice(seq, lo, hi) == SubSeq(seq, lo + 1, Min(hi, Len(seq)))

RECURSIVE SeqsUpTo(_, _)
\* all sequences over S of length at most n
SeqsUpTo(S, n) ==
    IF n = 0 THEN {<<>>}
    ELSE LET shorter == SeqsUpTo(S, n - 1)
         IN shorter \cup {Append(s, x) : s \in shorter, x \in S}

----------------------------------------------------------------------------
(* str.lower() and str.count() *)

LowerChar(c) ==
    CASE c = "K" -> "k"
      [] c = "P" -> "p"
      [] c = "A" -> "a"
      [] c = "B" -> "b"
      [] c = "L" -> "l"
      [] c = "O" -> "o"
      [] OTHER   -> c

Lower(s) == [i \in 1..Len(s) |-> LowerChar(s[i])]

RECURSIVE CountFrom(_, _, _)
\* occurrences of the non-empty sub in text found scanning from position i,
\* each search resuming after the end of the previous occurrence
CountFrom(text, sub, i) ==
    IF i + Len(sub) - 1 > Len(text) THEN 0
    ELSE IF SubSeq(text, i, i + Len(sub) - 1) = sub
         THEN 1 + CountFrom(text, sub, i + Len(sub))
         ELSE CountFrom(text, sub, i + 1)

\* text.count(sub); the empty string is counted len(text) + 1 times
Count(text, sub) ==
    IF sub = <<>> THEN Len(text) + 1 ELSE CountFrom(text, sub, 1)

----------------------------------------------------------------------------
(* services.get_ranked_resume_matches *)

\* resume_text_lower = (resume_data.get("resume_text") or "").lower()
ResumeTextLower(resume_data) ==
    Lower(OrElse(resume_data.resume_text, Str(<<>>)).s)

RECURSIVE SumCounts(_, _, _)
\* the loop "for keyword in keywords: score += resume_text_lower.count(keyword)"
\* from the i-th keyword on
SumCounts(text, keywords, i) ==
    IF i > Len(keywords) THEN 0
    ELSE Count(text, keywords[i]) + SumCounts(text, keywords, i + 1)

\* the score the loop body computes for one row
Score(resume_data, keywords) ==
    SumCounts(ResumeTextLower(resume_data), keywords, 1)

\* the test written "score >= 0"
ScoreAdmitsZero(score) == score >= 0

\* the test "if score > 0" that admits a row to the matches
ScoreAdmits(score) == score > 0

\* the test written "candidate_info is not None"
CandidateAdmitsNotNone(candidate_info) == candidate_info # None

\* the test "if candidate_info" on the joined candidate
CandidateAdmits(candidate_info) == Truthy(candidate_info)

Match(resume_data, score) ==
    [score     |-> score,
     candidate |-> resume_data.candidates,
     resume    |-> [pdf_url |-> resume_data.pdf_url]]

RECURSIVE ScoredMatches(_, _, _)
\* scored_matches as built by the loop over response.data from row i on
ScoredMatches(data, keywords, i) ==
    IF i > Len(data) THEN <<>>
    ELSE LET score == Score(data[i], keywords)
             rest  == ScoredMatches(data, keywords, i + 1)
         IN IF ScoreAdmits(score) /\ CandidateAdmits(data[i].candidates)
            THEN <<Match(data[i], score)>> \o rest
            ELSE rest

\* the descending sort done as an ascending sort reversed: x goes before
\* the elements whose key equals its own
InsertByScoreBeforeTies(sorted, x) ==
    LET n == Cardinality({j \in 1..Len(sorted) : sorted[j].score > x.score})
    IN SubSeq(sorted, 1, n) \o <<x>> \o SubSeq(sorted, n + 1, Len(sorted))

\* the sort without reverse=True
InsertByScoreAscending(sorted, x) ==
    LET n == Cardinality({j \in 1..Len(sorted) : sorted[j].score <= x.score})
    IN SubSeq(sorted, 1, n) \o <<x>> \o SubSeq(sorted, n + 1, Len(sorted))

\* where sorted(..., reverse=True) puts x in an already sorted list: after
\* every element whose key is >= x's key (the sort is stable)
InsertByScore(sorted, x) ==
    LET n == Cardinality({j \in 1..Len(sorted) : sorted[j].score >= x.score})
    IN SubSeq(sorted, 1, n) \o <<x>> \o SubSeq(sorted, n + 1, Len(sorted))

RECURSIVE SortedByScore(_, _)
\* sorted(scored_matches, key=lambda x: x["score"], reverse=True),
\* the first n elements
SortedByScore(ms, n) ==
    IF n = 0 THEN <<>>
    ELSE InsertByScore(SortedByScore(ms, n - 1), ms[n])

\* the rows the query of table "resumes" returns: at most FetchCap of them
FetchResumes(table) == Slice(table, 0, FetchCap)

GetRankedResumeMatches(keywords, table) ==
    LET data == FetchResumes(table)
    IN IF data = <<>> THEN <<>>
       ELSE LET scored_matches == ScoredMatches(data, keywords, 1)
            IN IF scored_matches = <<>> THEN <<>>
               ELSE SortedByScore(scored_matches, Len(scored_matches))

\* the value of the local "score" for each fetched row, in fetch order
RowScores(keywords, table) ==
    LET data == FetchResumes(table)
    IN [i \in 1..Len(data) |-> Score(data[i], keywords)]

----------------------------------------------------------------------------
(* routes.analyze_resumes *)

\* no request is being served
NoCall == [op |-> "none"]

\* a request body: empty (falsy), or keywords with an optional limit,
\* the limit given as <<>> (absent) or <<n>>
EmptyBody == [empty |-> TRUE]
Body(keywords, limit) == [empty |-> FALSE, keywords |-> keywords, limit |-> limit]

\* AnalyzeRequest: limit = Field(default=5, gt=0, le=100)
LimitOf(body) == IF body.limit = <<>> THEN DefaultLimit ELSE body.limit[1]
ValidLimit(limit) == limit > 0 /\ limit <= LimitMax

\* keywords = [kw.lower() for kw in validated_data.keywords]
NormalizeKeywords(keywords) == [i \in 1..Len(keywords) |-> Lower(keywords[i])]

\* matches[:limit]
LimitedMatches(matches, limit) == Slice(matches, 0, limit)

\* match["rank"] = i
RankOfZeroBased(i) == i

\* match["rank"] = i + 1 for the match at 0-based position i
RankOf(i) == i + 1

FinalResponse(limited_matches) ==
    [j \in 1..Len(limited_matches) |->
        [score     |-> limited_matches[j].score,
         candidate |-> limited_matches[j].candidate,
         resume    |-> limited_matches[j].resume,
         rank      |-> RankOf(j - 1)]]

ErrorResponse(status) ==
    [op |-> "analyze", status |-> status, keywords |-> <<>>, limit |-> 0,
     scores |-> <<>>, sorted_matches |-> <<>>, matches |-> <<>>]

\* the response of POST /analyze; an exception from the store's query is
\* caught and answered with 500
AnalyzeResult(body) ==
    IF body.empty THEN ErrorResponse(400)
    ELSE IF ~ValidLimit(LimitOf(body)) THEN ErrorResponse(400)
    ELSE IF ~storeUp THEN ErrorResponse(500)
    ELSE LET keywords == NormalizeKeywords(body.keywords)
             limit    == LimitOf(body)
             matches  == GetRankedResumeMatches(keywords, resumes)
         IN [op |-> "analyze", status |-> 200,
             keywords |-> keywords, limit |-> limit,
             scores |-> RowScores(keywords, resumes),
             sorted_matches |-> matches,
             matches |-> FinalResponse(LimitedMatches(matches, limit))]

AnalyzeResumes(body) ==
    /\ request = NoCall
    /\ request' = [op |-> "analyze", body |-> body]
    /\ response' = AnalyzeResult(body)
    /\ UNCHANGED <<resumes, candidates, storeUp>>

----------------------------------------------------------------------------
(* The record store's query primitives used by get_paginated_candidates *)

RECURSIVE Like(_, _, _, _)
\* pattern p from position i matches string s from position j, ignoring
\* case: "%" (and PostgREST's alias "*") matches any run of characters,
\* "_" any one character
Like(p, i, s, j) ==
    IF i > Len(p) THEN j > Len(s)
    ELSE IF p[i] \in {"%", "*"}
         THEN Like(p, i + 1, s, j) \/ (j <= Len(s) /\ Like(p, i, s, j + 1))
    ELSE IF j > Len(s) THEN FALSE
    ELSE IF p[i] = "_" \/ LowerChar(p[i]) = LowerChar(s[j])
         THEN Like(p, i + 1, s, j + 1)
    ELSE FALSE

\* .ilike(column, f"%{search_term}%")
ILike(value, search_term) == Like(<<"%">> \o search_term \o <<"%">>, 1, value, 1)

\* "if search_term and search_term.strip()": the term is not blank
SearchGiven(search_term) == \E i \in 1..Len(search_term) : search_term[i] # " "

\* a candidate row passes the search filter of the query
NameMatches(full_name, search_term) ==
    SearchGiven(search_term) => ILike(full_name, search_term)

RECURSIVE Filter(_, _, _)
\* the rows of seq from position i on whose index is in keep, in order
Filter(seq, keep, i) ==
    IF i > Len(seq) THEN <<>>
    ELSE IF i \in keep THEN <<seq[i]>> \o Filter(seq, keep, i + 1)
    ELSE Filter(seq, keep, i + 1)

\* where .order("created_at", desc=True) puts row x among rows already ordered
InsertByCreated(sorted, x) ==
    LET n == Cardinality({j \in 1..Len(sorted) : sorted[j].created_at >= x.created_at})
    IN SubSeq(sorted, 1, n) \o <<x>> \o SubSeq(sorted, n + 1, Len(sorted))

RECURSIVE OrderByCreatedDesc(_, _)
\* the first n rows ordered by created_at, most recent first
OrderByCreatedDesc(rows, n) ==
    IF n = 0 THEN <<>>
    ELSE InsertByCreated(OrderByCreatedDesc(rows, n - 1), rows[n])

\* .range(from, to): the rows at 0-based positions from..to
Range(rows, from, to) == SubSeq(rows, from + 1, Min(to + 1, Len(rows)))

\* the projection of a resume row nested under a candidate
ResumeRecord(item) ==
    [id |-> item.id, category |-> item.category, pdf_url |-> item.pdf_url,
     resume_text |-> item.resume_text]

\* resumes(...) embedded under a candidate row: the rows that reference it
NestedResumes(candidate_id) ==
    LET own == {i \in 1..Len(resumes) :
                    /\ Truthy(resumes[i].candidates)
                    /\ resumes[i].candidates.d.id = candidate_id}
        rows == Filter(resumes, own, 1)
    IN [i \in 1..Len(rows) |-> ResumeRecord(rows[i])]

\* a row of table "candidates" with its resumes embedded
CandidateRow(c) ==
    [id |-> c.id, full_name |-> c.full_name, created_at |-> c.created_at,
     resumes |-> NestedResumes(c.id)]

\* the candidates query with count="exact": the rows passing the search
\* filter, ordered, cut to the range; count is taken before the range
QueryCandidates(search_term, from, to) ==
    LET keep    == {i \in 1..Len(candidates) :
                        NameMatches(candidates[i].full_name, search_term)}
        matched == Filter(candidates, keep, 1)
        ordered == OrderByCreatedDesc(matched, Len(matched))
        window  == Range(ordered, from, to)
    IN [data  |-> [i \in 1..Len(window) |-> CandidateRow(window[i])],
        count |-> Len(matched)]

\* the resumes query of the category branch: the rows of the category, the
\* embedded candidate null where it does not pass the filter on
\* candidates.full_name
QueryResumesByCategory(category, search_term) ==
    LET keep == {i \in 1..Len(resumes) : resumes[i].category = category}
        rows == Filter(resumes, keep, 1)
    IN [i \in 1..Len(rows) |->
          IF /\ Truthy(rows[i].candidates)
             /\ ~NameMatches(rows[i].candidates.d.full_name, search_term)
          THEN [rows[i] EXCEPT !.candidates = None]
          ELSE rows[i]]

----------------------------------------------------------------------------
(* services.get_paginated_candidates *)

\* offset = page * limit
OffsetFromPage(page, limit) == page * limit

\* offset = (page - 1) * limit
Offset(page, limit) == (page - 1) * limit

\* the entry appended to all_candidates for a row seen first for its candidate
CandidateEntry(item) ==
    [id |-> item.candidates.d.id,
     full_name |-> item.candidates.d.full_name,
     created_at |-> item.candidates.d.created_at,
     resumes |-> <<ResumeRecord(item)>>]

\* the membership test left out
FirstSeenAlways(candidate_id, unique_candidate_ids) == TRUE

\* "if candidate_id not in unique_candidate_ids"
FirstSeen(candidate_id, unique_candidate_ids) ==
    candidate_id \notin unique_candidate_ids

RECURSIVE AllCandidates(_, _, _)
\* all_candidates as built by the loop over all_response.data from row i on,
\* unique_candidate_ids being the ids seen before
AllCandidates(data, i, unique_candidate_ids) ==
    IF i > Len(data) THEN <<>>
    ELSE LET candidate_data == data[i].candidates
         IN IF Truthy(candidate_data)
               /\ FirstSeen(candidate_data.d.id, unique_candidate_ids)
            THEN <<CandidateEntry(data[i])>> \o
                 AllCandidates(data, i + 1,
                               unique_candidate_ids \cup {candidate_data.d.id})
            ELSE AllCandidates(data, i + 1, unique_candidate_ids)

\* total_count taken from the fetched rows, not the unique candidates
CategoryBranchCountingRows(offset, limit, search_term, category) ==
    LET data == QueryResumesByCategory(category, search_term)
    IN IF data = <<>> THEN [candidates |-> <<>>, total_count |-> 0]
       ELSE LET all_candidates == AllCandidates(data, 1, {})
            IN [candidates  |-> Slice(all_candidates, offset, offset + limit),
                total_count |-> Len(data)]

\* the branch taken when category != "all"
CategoryBranch(offset, limit, search_term, category) ==
    LET data == QueryResumesByCategory(category, search_term)
    IN IF data = <<>> THEN [candidates |-> <<>>, total_count |-> 0]
       ELSE LET all_candidates == AllCandidates(data, 1, {})
            IN [candidates  |-> Slice(all_candidates, offset, offset + limit),
                total_count |-> Len(all_candidates)]

\* the range written .range(offset, offset + limit)
DirectBranchInclusiveEnd(offset, limit, search_term) ==
    LET res == QueryCandidates(search_term, offset, offset + limit)
    IN IF res.data = <<>> THEN [candidates |-> <<>>, total_count |-> 0]
       ELSE [candidates |-> res.data, total_count |-> res.count]

\* the branch taken when category = "all"
DirectBranch(offset, limit, search_term) ==
    LET res == QueryCandidates(search_term, offset, offset + limit - 1)
    IN IF res.data = <<>> THEN [candidates |-> <<>>, total_count |-> 0]
       ELSE [candidates |-> res.data, total_count |-> res.count]

GetPaginatedCandidates(page, limit, search_term, category) ==
    LET offset == Offset(page, limit)
    IN IF category # "all"
       THEN CategoryBranch(offset, limit, search_term, category)
       ELSE DirectBranch(offset, limit, search_term)

----------------------------------------------------------------------------
(* routes.get_all_candidates *)

\* the response of GET /candidates; an exception from the store's query
\* is caught and answered with 500
ListResult(page, limit, search_term, category) ==
    IF ~storeUp
    THEN [op |-> "list", status |-> 500, candidates |-> <<>>, total |-> 0]
    ELSE LET res == GetPaginatedCandidates(page, limit, search_term, category)
         IN [op |-> "list", status |-> 200,
             candidates |-> res.candidates, total |-> res.total_count]

ListCandidates(page, limit, search_term, category) ==
    /\ request = NoCall
    /\ request' = [op |-> "list", page |-> page, limit |-> limit,
                   search_term |-> search_term, category |-> category]
    /\ response' = ListResult(page, limit, search_term, category)
    /\ UNCHANGED <<resumes, candidates, storeUp>>

----------------------------------------------------------------------------
(* Store contents and request inputs *)

Names == {<<"A", "l">>, <<"B", "o">>}
Categories == {"Engineering", "Sales"}
SearchTerms == {<<>>, <<" ">>, <<"a">>, <<"_">>}

\* two candidates of the store, as the join embeds them under a resume row
Al == [id |-> 1, full_name |-> <<"A", "l">>, created_at |-> 1]
Bo == [id |-> 2, full_name |-> <<"B", "o">>, created_at |-> 2]

\* a row of table "resumes" joined with its candidate; the row's id also
\* stands for its pdf_url
ResumeRow(i, text, category, candidate) ==
    [id |-> i, pdf_url |-> i, resume_text |-> text, category |-> category,
     candidates |-> candidate]

\* Corpora for the ranker: up to MaxResumes rows, the text null, "p", "k"
\* or "Kk", the candidate null, empty or resolved
RankTexts == {None, Str(<<"p">>), Str(<<"k">>), Str(<<"K", "k">>)}
RankCandidates == {None, EmptyDict, Dict(Al)}
RankInit ==
    /\ \E rows \in SeqsUpTo(RankTexts \X RankCandidates, MaxResumes) :
          resumes = [i \in 1..Len(rows) |->
                        ResumeRow(i, rows[i][1], "Engineering", rows[i][2])]
    /\ candidates = <<Al>>
    /\ storeUp \in BOOLEAN
    /\ request = NoCall
    /\ response = NoCall

\* Corpora for scoring: one resume whose text is null or any string of at
\* most MaxTextLen characters
TextAlphabet == {"k", "K", "p"}
ScoreTexts == {None} \cup {Str(t) : t \in SeqsUpTo(TextAlphabet, MaxTextLen)}
ScoreInit ==
    /\ \E text \in ScoreTexts :
          resumes = <<ResumeRow(1, text, "Engineering", Dict(Al))>>
    /\ candidates = <<Al>>
    /\ storeUp \in BOOLEAN
    /\ request = NoCall
    /\ response = NoCall

\* Stores for the lister.  Candidates are inserted one at a time
\* (seed_database.process_resume_row), so their created_at differ.
CreationOrders(n) == {f \in [1..n -> 1..n] : \A i, j \in 1..n : f[i] = f[j] => i = j}
CandidateTables ==
    UNION {{[i \in 1..n |-> [id |-> i, full_name |-> names[i], created_at |-> times[i]]] :
               names \in [1..n -> Names], times \in CreationOrders(n)} :
           n \in 0..MaxCandidates}
ListCandidatesOf == {None, Dict(Al), Dict(Bo)}
ListInit ==
    /\ \/ /\ candidates \in CandidateTables
          /\ resumes = <<>>
       \/ /\ candidates = <<Al, Bo>>
          /\ \E rows \in SeqsUpTo(Categories \X ListCandidatesOf, MaxResumes) :
                resumes = [i \in 1..Len(rows) |->
                              ResumeRow(i, None, rows[i][1], rows[i][2])]
    /\ storeUp \in BOOLEAN
    /\ request = NoCall
    /\ response = NoCall

Init == RankInit \/ ScoreInit \/ ListInit

\* request bodies of POST /analyze
LimitInputs == {<<>>, <<0>>, <<1>>, <<2>>, <<LimitMax + 1>>}
RankKeywordLists == {<<>>, <<<<"k">>>>, <<<<"K">>, <<"k">>>>}
RankBodies == {EmptyBody} \cup {Body(k, l) : k \in RankKeywordLists, l \in LimitInputs}
ScoreKeywords ==
    {<<>>, <<"k">>, <<"K">>, <<"p">>, <<"k", "k">>, <<"K", "p">>, <<"p", "k">>}
ScoreBodies == {Body(k, <<>>) : k \in SeqsUpTo(ScoreKeywords, MaxKeywords)}

AnalyzeRank == \E body \in RankBodies : AnalyzeResumes(body)

AnalyzeScore == \E body \in ScoreBodies : AnalyzeResumes(body)

List ==
    \E page \in 1..MaxPage, limit \in 1..MaxPageSize,
       search_term \in SearchTerms, category \in {"all"} \cup Categories :
        ListCandidates(page, limit, search_term, category)

\* the handler returns its response to the client; each call is
\* self-contained and leaves the store as it found it
Return ==
    /\ request # NoCall
    /\ request' = NoCall
    /\ response' = NoCall
    /\ UNCHANGED <<resumes, candidates, storeUp>>

Next == AnalyzeRank \/ AnalyzeScore \/ List \/ Return

Spec == Init /\ [][Next]_vars
SpecRank == RankInit /\ [][AnalyzeRank \/ Return]_vars
SpecScore == ScoreInit /\ [][AnalyzeScore \/ Return]_vars
SpecList == ListInit /\ [][List \/ Return]_vars

----------------------------------------------------------------------------
(* Properties of the ranker *)

Answered == response.op = "analyze" /\ response.status = 200

\* C1: the list get_ranked_resume_matches returns holds only entries whose
\* score is greater than 0, and no entry has a lower score than the next
C1_PositiveAndSorted ==
    response.op = "analyze" =>
        LET m == response.sorted_matches
        IN /\ \A i \in 1..Len(m) : m[i].score > 0
           /\ \A i \in 1..(Len(m) - 1) : m[i].score >= m[i + 1].score

\* a ranking of two rows fetched in the order opposite to their scores,
\* from a corpus that also holds a row with a candidate and score 0
C1_Witness ==
    /\ Answered
    /\ Len(response.sorted_matches) = 2
    /\ response.sorted_matches[1].score > response.sorted_matches[2].score
    /\ response.sorted_matches[1].resume.pdf_url > response.sorted_matches[2].resume.pdf_url
    /\ \E i \in 1..Len(resumes) :
          response.scores[i] = 0 /\ Truthy(resumes[i].candidates)

\* kw occurs in text at position p
OccursAt(text, kw, p) ==
    /\ p \in 1..(Len(text) + 1)
    /\ p + Len(kw) - 1 <= Len(text)
    /\ SubSeq(text, p, p + Len(kw) - 1) = kw

\* the largest number of occurrences of kw in text no two of which overlap
Occurrences(text, kw) ==
    LET occ  == {p \in 1..(Len(text) + 1) : OccursAt(text, kw, p)}
        free == {P \in SUBSET occ :
                    \A a, b \in P : a < b => b - a >= Len(kw)}
    IN CHOOSE n \in 0..Cardinality(occ) :
          /\ \E P \in free : Cardinality(P) = n
          /\ \A P \in free : Cardinality(P) <= n

RECURSIVE OccurrenceSum(_, _, _)
OccurrenceSum(text, kws, i) ==
    IF i > Len(kws) THEN 0
    ELSE Occurrences(text, Lower(kws[i])) + OccurrenceSum(text, kws, i + 1)

\* the text of a row, lowercased, a null text read as the empty text
TextOf(row) == IF row.resume_text = None THEN <<>> ELSE Lower(row.resume_text.s)

\* the score of every row is the sum over the request's keywords of the
\* non-overlapping occurrences of the lowercased keyword in the lowercased text
C2_ScoreIsSum ==
    Answered =>
        \A i \in 1..Len(resumes) :
            response.scores[i] =
                OccurrenceSum(TextOf(resumes[i]), request.body.keywords, 1)

\* a row whose text is null has score 0
C2_NullTextScoresZero ==
    Answered =>
        \A i \in 1..Len(resumes) :
            resumes[i].resume_text = None => response.scores[i] = 0

\* C2: the score is the sum over the keywords of the non-overlapping
\* occurrences of the lowercased keyword in the lowercased text, and a row
\* whose text is null has score 0 for all keywords
C2_ScoreIsOccurrenceSum == C2_ScoreIsSum /\ C2_NullTextScoresZero

\* C3: every entry of the ranked output carries a non-empty candidate
\* record, that of the row it was made from
C3_CandidateResolved ==
    response.op = "analyze" =>
        \A i \in 1..Len(response.sorted_matches) :
            LET e == response.sorted_matches[i]
            IN /\ e.candidate.t = "dict"
               /\ DOMAIN e.candidate.d # {}
               /\ e.resume.pdf_url \in 1..Len(resumes)
               /\ resumes[e.resume.pdf_url].candidates = e.candidate

\* rows with a positive score whose candidate is null and empty were left
\* out of a ranking that is not empty
C3_Witness ==
    /\ Answered
    /\ response.sorted_matches # <<>>
    /\ \E i, j \in 1..Len(resumes) :
          /\ response.scores[i] > 0 /\ resumes[i].candidates = None
          /\ response.scores[j] > 0 /\ resumes[j].candidates = EmptyDict

\* C8: a valid request with no keywords, the store answering, gives every
\* row score 0 and is answered 200 with an empty match list
C8_EmptyKeywordsEmptyResult ==
    (/\ request.op = "analyze"
     /\ ~request.body.empty
     /\ request.body.keywords = <<>>
     /\ ValidLimit(LimitOf(request.body))
     /\ storeUp) =>
        /\ response.status = 200
        /\ \A i \in 1..Len(response.scores) : response.scores[i] = 0
        /\ Len(response.scores) = Len(resumes)
        /\ response.sorted_matches = <<>>
        /\ response.matches = <<>>

\* no keywords were given for a corpus of rows with text and candidate
C8_Witness ==
    /\ Answered
    /\ request.body.keywords = <<>>
    /\ Len(resumes) >= 2
    /\ \A i \in 1..Len(resumes) :
          Truthy(resumes[i].resume_text) /\ Truthy(resumes[i].candidates)

\* C9: the response holds the first min(limit, n) entries of the sorted
\* list in the same order, the entry at position i with rank i, and a lower
\* rank never goes with a lower score
C9_TruncatedAndRanked ==
    Answered =>
        LET m == response.matches
            s == response.sorted_matches
        IN /\ Len(m) = Min(response.limit, Len(s))
           /\ \A i \in 1..Len(m) :
                 /\ m[i].rank = i
                 /\ m[i].score = s[i].score
                 /\ m[i].candidate = s[i].candidate
                 /\ m[i].resume = s[i].resume
           /\ \A i, j \in 1..Len(m) :
                 m[i].rank < m[j].rank => m[i].score >= m[j].score

\* three matches of differing scores were cut to the limit 2
C9_Witness ==
    /\ Answered
    /\ response.limit = 2
    /\ Len(response.sorted_matches) = 3
    /\ Len(response.matches) = 2
    /\ response.matches[1].score > response.matches[2].score

----------------------------------------------------------------------------
(* Properties of the candidate lister *)

Listed == response.op = "list" /\ response.status = 200
ListedAll == Listed /\ request.category = "all"
ListedCategory == Listed /\ request.category # "all"

\* the rows of table "candidates" that pass the request's search filter
Matching ==
    {i \in 1..Len(candidates) :
        NameMatches(candidates[i].full_name, request.search_term)}

\* the rows of table "resumes" of the request's category whose candidate is
\* joined and passes the request's search filter
Eligible ==
    {k \in 1..Len(resumes) :
        /\ resumes[k].category = request.category
        /\ Truthy(resumes[k].candidates)
        /\ NameMatches(resumes[k].candidates.d.full_name, request.search_term)}

\* the eligible rows that are the first of their candidate
FirstRows ==
    {k \in Eligible :
        \A j \in Eligible :
            j < k => resumes[j].candidates.d.id # resumes[k].candidates.d.id}

\* how many entries the window at the request's offset holds of a list of n
WindowLen(n) ==
    Max(0, Min(request.limit, n - (request.page - 1) * request.limit))

\* C4: with category "all" the total is the number of candidates passing
\* the search filter, whatever the page
C4_TotalIsMatchCount ==
    ListedAll => response.total = Cardinality(Matching)

\* the pages 1..ceil(total/limit) of the request's filter, concatenated
RECURSIVE PagesFrom(_, _)
PagesFrom(p, last) ==
    IF p > last THEN <<>>
    ELSE GetPaginatedCandidates(p, request.limit, request.search_term,
                                request.category).candidates
         \o PagesFrom(p + 1, last)

\* C5: the pages 1..ceil(total/pageSize) of one filter hold, together,
\* exactly total entries, their candidate ids pairwise distinct
C5_PagesPartition ==
    (Listed /\ request.page = 1) =>
        LET total == response.total
            last  == (total + request.limit - 1) \div request.limit
            all   == PagesFrom(1, last)
        IN /\ Len(all) = total
           /\ \A i, j \in 1..Len(all) : all[i].id = all[j].id => i = j

\* a first page of a filter with several pages, in the direct branch, and
\* one in the category branch where a candidate owns two rows
C5_Witness ==
    /\ ListedAll /\ request.page = 1 /\ request.limit = 1
    /\ response.total = 2
    /\ SearchGiven(request.search_term)
    /\ Cardinality(Matching) < Len(candidates)

C5_WitnessCategory ==
    /\ ListedCategory /\ request.page = 1 /\ request.limit = 1
    /\ response.total = 2
    /\ Cardinality(Eligible) = 3

\* C6: with a category, a page holds at most one entry per candidate id,
\* each with exactly one resume: the candidate's first among the fetched rows
C6_OneEntryPerCandidate ==
    ListedCategory =>
        LET page == response.candidates
        IN /\ \A i, j \in 1..Len(page) : page[i].id = page[j].id => i = j
           /\ \A i \in 1..Len(page) :
                 /\ Len(page[i].resumes) = 1
                 /\ \E k \in FirstRows :
                       /\ resumes[k].candidates.d.id = page[i].id
                       /\ page[i].resumes[1].id = resumes[k].id

\* a candidate with two rows in the category is listed once, with the
\* first of them
C6_Witness ==
    /\ ListedCategory
    /\ \E i \in 1..Len(response.candidates) :
          \E j, k \in Eligible :
              /\ j < k
              /\ resumes[j].candidates.d.id = response.candidates[i].id
              /\ resumes[k].candidates.d.id = response.candidates[i].id
              /\ response.candidates[i].resumes[1].id = resumes[j].id

\* C7: with category "all" the page is the window of pageSize entries at
\* offset (page-1)*pageSize of the matching candidates, most recent first:
\* its k-th entry has exactly offset + k - 1 matching candidates created
\* after it, and it is shorter than pageSize only at the end of the list
C7_PageIsWindow ==
    ListedAll =>
        LET page   == response.candidates
            offset == (request.page - 1) * request.limit
        IN /\ Len(page) = WindowLen(Cardinality(Matching))
           /\ Len(page) <= request.limit
           /\ \A k \in 1..Len(page) :
                 \E i \in Matching :
                     /\ candidates[i].id = page[k].id
                     /\ candidates[i].full_name = page[k].full_name
                     /\ candidates[i].created_at = page[k].created_at
                     /\ Cardinality({j \in Matching :
                            candidates[j].created_at > candidates[i].created_at})
                        = offset + k - 1

\* the second page of three candidates not stored in creation order: one
\* entry, the window running past the end
C7_Witness ==
    /\ ListedAll /\ request.page = 2 /\ request.limit = 2
    /\ Len(candidates) = 3
    /\ Cardinality(Matching) = 3
    /\ Len(response.candidates) = 1
    /\ candidates[1].created_at > candidates[2].created_at
    /\ candidates[3].created_at > candidates[2].created_at

\* C10: with a category the call returns the window at offset
\* (page-1)*pageSize of the unique candidates in order of first appearance,
\* and their number as the total, on every page
C10_CategoryWindow ==
    ListedCategory =>
        LET page   == response.candidates
            offset == (request.page - 1) * request.limit
        IN /\ response.total = Cardinality(FirstRows)
           /\ Len(page) = WindowLen(Cardinality(FirstRows))
           /\ \A p \in 1..Len(page) :
                 \E k \in FirstRows :
                     /\ page[p].id = resumes[k].candidates.d.id
                     /\ page[p].full_name = resumes[k].candidates.d.full_name
                     /\ page[p].resumes = <<ResumeRecord(resumes[k])>>
                     /\ Cardinality({j \in FirstRows : j < k}) = offset + p - 1

\* a page past the end of two unique candidates, found among rows that
\* include one without a joined candidate
C10_Witness ==
    /\ ListedCategory /\ request.page = 3 /\ request.limit = 1
    /\ response.total = 2
    /\ response.candidates = <<>>
    /\ \E k \in 1..Len(resumes) :
          resumes[k].category = request.category /\ resumes[k].candidates = None

----------------------------------------------------------------------------
(* Order of the ranker among equal scores *)

\* C11: two fetched rows a before b that have the same positive score and
\* a joined candidate both appear in the ranked output, a before b
C11_TiesKeepFetchOrder ==
    Answered =>
        LET m == response.sorted_matches
        IN \A a, b \in 1..Len(resumes) :
              (/\ a < b
               /\ response.scores[a] > 0
               /\ response.scores[a] = response.scores[b]
               /\ Truthy(resumes[a].candidates)
               /\ Truthy(resumes[b].candidates)) =>
                  \E i, j \in 1..Len(m) :
                      /\ i < j
                      /\ m[i].resume.pdf_url = resumes[a].pdf_url
                      /\ m[j].resume.pdf_url = resumes[b].pdf_url

\* the first and the last fetched row tie below the score of the row
\* fetched between them: the ranking moved that row up and kept the tie in
\* fetch order
C11_Witness ==
    /\ Answered
    /\ Len(resumes) = 3
    /\ Len(response.sorted_matches) = 3
    /\ response.scores[1] = response.scores[3]
    /\ response.scores[2] > response.scores[1]
    /\ response.sorted_matches[1].resume.pdf_url = 2
    /\ response.sorted_matches[2].resume.pdf_url = 1
    /\ response.sorted_matches[3].resume.pdf_url = 3

====
